---- MODULE Spec2Model ----
(***************************************************************************)
(* Model of samples/mediapipe_picam/face_landmarker/raspberry_pi/detect.py  *)
(*                                                                         *)
(* Two execution contexts share the module globals COUNTER, FPS,           *)
(* START_TIME and DETECTION_RESULT:                                        *)
(*   - the capture/render/display loop of run() (variable pc), and         *)
(*   - the result callback save_result, which MediaPipe invokes on its own *)
(*     thread when an inference accepted by detect_async completes         *)
(*     (variable cb).                                                      *)
(* Each action is one source line (or one group of lines that touches no   *)
(* shared global), so that every interleaving of global reads and writes   *)
(* the interpreter can produce is a behaviour of the model.                *)
(*                                                                         *)
(* Library calls are modelled by their contract:                           *)
(*   - detect_async in RunningMode.LIVE_STREAM returns immediately and      *)
(*     ignores the frame when the task is still busy with an earlier one;  *)
(*   - FaceLandmarker.close() returns when all accepted work is done;      *)
(*   - a failing library call raises; run() has no try/except, so an       *)
(*     exception leaves run() at the line that raised it.                  *)
(* Values: an inference result is represented by the ordinal of its        *)
(* publish (1, 2, ...), None by 0; time.time() by an integer clock; a      *)
(* float FPS k/d by the pair <<k, d>>.                                     *)
(***************************************************************************)
EXTENDS Integers, Sequences, FiniteSets, TLC

VARIABLES
    pc,                \* position of run(): the line it executes next
    cb,                \* position of save_result ("idle": not running)
    COUNTER,           \* global COUNTER
    FPS,               \* global FPS, <<k, d>> for k/d
    START_TIME,        \* global START_TIME
    DETECTION_RESULT,  \* global DETECTION_RESULT (None or a result)
    now,               \* the wall clock read by time.time()
    ticks,             \* clock advances not caused by an inference
    inflight,          \* accepted detect_async frames not yet completed
    graphError,        \* the landmarker graph holds an inference error
    camera,            \* picam2: "closed", "started", "stopped"
    detector,          \* detector: "none", "open", "closed"
    frame,             \* current_frame of this iteration
    displayed,         \* <<f>>: the frame last passed to cv2.imshow
    error,             \* the exception that ended run(), "none" otherwise
    submitted,         \* history: number of detect_async calls
    accepted,          \* history: detect_async calls taken for inference
    failed,            \* history: accepted inferences that failed
    hist,              \* history: hist[n+1] is FPS as of the n-th publish
    lastRecompute,     \* history: ordinal of the publish that last set FPS
    busyAtStop,        \* history: an inference was in work when 'q' was read
    config,            \* the arguments main() passes to run()
    captured,          \* history: frames returned by capture_array
    shown,             \* history: frames passed to cv2.imshow
    snap,              \* history: <<FPS, DETECTION_RESULT>> as this render began
    prevRender,        \* history: <<snap, frame>> of the render before this one
    face_blendshapes,  \* DETECTION_RESULT.face_blendshapes: per face, the scores
    barPc,             \* position in lines 191-235
    idx,               \* idx of the for loop of line 203
    legend_y,          \* legend_y
    rows               \* the text and bar rows drawn on the label area

vars == <<pc, cb, COUNTER, FPS, START_TIME, DETECTION_RESULT, now, ticks,
          inflight, graphError, camera, detector, frame, displayed, error,
          submitted, accepted, failed, hist, lastRecompute, busyAtStop,
          config, captured, shown, snap, prevRender, face_blendshapes,
          barPc, idx, legend_y, rows>>

barVars == <<face_blendshapes, barPc, idx, legend_y, rows>>

slot == <<COUNTER, FPS, START_TIME, DETECTION_RESULT>>

(* ------------------------------ bounds --------------------------------- *)
MaxFrames == 22    \* frames the camera delivers
MaxTicks == 2      \* clock advances besides the inference durations
MaxFailures == 1   \* inferences that fail
MaxCategories == 2 \* blendshape categories of a face

(* --------------------------- program constants ------------------------- *)
fps_avg_frame_count == 10
None == 0
NoText == -1

(* ------------------------------- helpers ------------------------------- *)
\* '{:.1f}'.format(FPS): FPS rounded to tenths, as a number of tenths.
\* A tie is rounded to even, which is what the float formatting does for the
\* exactly representable values that occur (0.25, 1.25).
FormatFps(f) ==
    LET n == f[1] * 10
        q == n \div f[2]
        r == n % f[2]
    IN  IF 2 * r > f[2] THEN q + 1
        ELSE IF 2 * r < f[2] THEN q
        ELSE IF q % 2 = 0 THEN q ELSE q + 1

\* fps_avg_frame_count / (time.time() - START_TIME)
ComputeFps(t, start) == <<fps_avg_frame_count, t - start>>

\* variant: the FPS is recomputed on every publish
WindowTestAlways(c) == TRUE

\* COUNTER % fps_avg_frame_count == 0
WindowTest(c) == c % fps_avg_frame_count = 0

\* variant: the counter restarts with every averaging window
NextCounterWrap(c) == (c + 1) % fps_avg_frame_count

\* COUNTER += 1
NextCounter(c) == c + 1

\* the frame as captured and flipped: nothing drawn on it yet
RawFrame == [fps |-> NoText, landmarks |-> None, panel |-> FALSE,
             legend |-> FALSE, bars |-> None]

\* variant: every frame is taken and queued behind the one in work
AcceptsAlways(n) == TRUE

\* LIVE_STREAM mode: a frame is taken only when no earlier one is in work
Accepts(n) == n = 0

\* variant: close() returns at once, whatever is still in work
CloseReturnsAtOnce == TRUE

\* detector.close() returns once the accepted work and its callback are done
CloseReturns == inflight = 0 /\ cb = "idle"

\* variant: the label area is added only when a result is cached
DrawPanelIfResult(f) ==
    IF DETECTION_RESULT # None THEN [f EXCEPT !.panel = TRUE, !.legend = TRUE]
    ELSE f

\* copyMakeBorder and the two legend lines
DrawPanel(f) == [f EXCEPT !.panel = TRUE, !.legend = TRUE]

\* the lifecycle state of the pipeline
State ==
    CASE pc = "start" -> "Starting"
      [] pc \in {"capture", "submit", "fps", "lm130", "lm132", "border",
                 "bars191", "bars200", "show", "waitKey"} -> "Running"
      [] pc \in {"close", "stop"} -> "Stopping"
      [] pc = "done" -> "Stopped"
      [] OTHER -> "Crashed"

\* number of times save_result has been entered
Completions == COUNTER + (IF cb = "idle" THEN 0 ELSE 1)

(* ---------------------------- configuration ---------------------------- *)
\* the argparse defaults of main(); confidences in tenths
DefaultConfig ==
    [min_face_detection_confidence |-> 5, min_face_presence_confidence |-> 5,
     min_tracking_confidence |-> 5, num_faces |-> 2,
     width |-> 1280, height |-> 1706]

\* command lines main() accepts: int() is applied to numFaces, frameWidth and
\* frameHeight, the confidences are passed on as given
ConfigCases ==
    {DefaultConfig,
     [DefaultConfig EXCEPT !.min_face_presence_confidence = 15],
     [DefaultConfig EXCEPT !.num_faces = 0],
     [DefaultConfig EXCEPT !.width = 0]}

\* the ranges of section 6: confidences in [0,1], at least one face, a
\* frame of positive size
InRange(c) ==
    /\ c.min_face_detection_confidence \in 0..10
    /\ c.min_face_presence_confidence \in 0..10
    /\ c.min_tracking_confidence \in 0..10
    /\ c.num_faces >= 1
    /\ c.width >= 1
    /\ c.height >= 1

\* START_TIME = time.time() runs when the module is loaded: the clock starts
\* there
ImportTime == 0

(* -------------------------------- Init --------------------------------- *)
Init ==
    /\ pc = "start"
    /\ cb = "idle"
    /\ COUNTER = 0
    /\ FPS = <<0, 1>>
    /\ START_TIME = 0
    /\ DETECTION_RESULT = None
    /\ now = 0
    /\ ticks = 0
    /\ inflight = 0
    /\ graphError = FALSE
    /\ camera = "closed"
    /\ detector = "none"
    /\ frame = RawFrame
    /\ displayed = << >>
    /\ error = "none"
    /\ submitted = 0
    /\ accepted = 0
    /\ failed = 0
    /\ hist = << <<0, 1>> >>
    /\ lastRecompute = 0
    /\ busyAtStop = FALSE
    /\ config = DefaultConfig
    /\ captured = 0
    /\ shown = 0
    /\ snap = <<<<0, 1>>, None>>
    /\ prevRender = << >>
    /\ face_blendshapes = << >>
    /\ barPc = "idle"
    /\ idx = 0
    /\ legend_y = 0
    /\ rows = << >>

(* ------------------------------ the clock ------------------------------ *)
Tick ==
    /\ ticks < MaxTicks
    /\ now' = now + 1
    /\ ticks' = ticks + 1
    /\ UNCHANGED <<pc, cb, COUNTER, FPS, START_TIME, DETECTION_RESULT,
                   inflight, graphError, camera, detector, frame, displayed,
                   error, submitted, accepted, failed, hist, lastRecompute,
                   busyAtStop, config, captured, shown, snap, prevRender,
                   barVars>>

(* ------------------------------- run() --------------------------------- *)
mainOnly == <<cb, COUNTER, FPS, START_TIME, DETECTION_RESULT, now, ticks,
              graphError, failed, hist, lastRecompute, config, barVars>>

\* variant: the FPS window is opened when the startup is over
StartSetsWindow ==
    /\ pc = "start"
    /\ pc' = "capture"
    /\ camera' = "started"
    /\ detector' = "open"
    /\ START_TIME' = now
    /\ UNCHANGED <<cb, COUNTER, FPS, DETECTION_RESULT, now, ticks, inflight,
                   graphError, frame, displayed, error, submitted, accepted,
                   failed, hist, lastRecompute, busyAtStop, config, captured,
                   shown, snap, prevRender, barVars>>

\* lines 56-104: camera start, landmarker creation, window creation
Start ==
    /\ pc = "start"
    /\ pc' = "capture"
    /\ camera' = "started"
    /\ detector' = "open"
    /\ UNCHANGED <<inflight, frame, displayed, error, submitted, accepted>>
    /\ UNCHANGED <<mainOnly, busyAtStop>>
    /\ UNCHANGED <<captured, shown, snap, prevRender>>

\* Picamera2() or picam2.start() raises: no camera
StartFailCamera ==
    /\ pc = "start"
    /\ pc' = "crashed"
    /\ error' = "DeviceError"
    /\ UNCHANGED <<inflight, camera, detector, frame, displayed, submitted,
                   accepted>>
    /\ UNCHANGED <<mainOnly, busyAtStop>>
    /\ UNCHANGED <<captured, shown, snap, prevRender>>

\* create_from_options raises (model asset missing): the camera runs already
StartFailDetector ==
    /\ pc = "start"
    /\ pc' = "crashed"
    /\ camera' = "started"
    /\ error' = "ModelError"
    /\ UNCHANGED <<inflight, detector, frame, displayed, submitted, accepted>>
    /\ UNCHANGED <<mainOnly, busyAtStop>>
    /\ UNCHANGED <<captured, shown, snap, prevRender>>

\* lines 109-114: capture_array, flip, cvtColor, mp.Image
Capture ==
    /\ pc = "capture"
    /\ submitted < MaxFrames
    /\ frame' = RawFrame
    /\ pc' = "submit"
    /\ UNCHANGED <<inflight, camera, detector, displayed, error, submitted,
                   accepted>>
    /\ UNCHANGED <<mainOnly, busyAtStop>>
    /\ captured' = captured + 1
    /\ UNCHANGED <<shown, snap, prevRender>>

\* line 109: capture_array raises; nothing in run() catches it
CaptureFail ==
    /\ pc = "capture"
    /\ pc' = "crashed"
    /\ error' = "CaptureError"
    /\ UNCHANGED <<inflight, camera, detector, frame, displayed, submitted,
                   accepted>>
    /\ UNCHANGED <<mainOnly, busyAtStop>>
    /\ UNCHANGED <<captured, shown, snap, prevRender>>

\* line 117: detector.detect_async(mp_image, timestamp)
DetectAsync ==
    /\ pc = "submit"
    /\ submitted' = submitted + 1
    /\ IF graphError
         THEN /\ pc' = "crashed"
              /\ error' = "InferenceError"
              /\ UNCHANGED <<inflight, accepted>>
         ELSE /\ pc' = "fps"
              /\ error' = error
              /\ IF Accepts(inflight)
                   THEN /\ inflight' = inflight + 1
                        /\ accepted' = accepted + 1
                   ELSE UNCHANGED <<inflight, accepted>>
    /\ UNCHANGED <<camera, detector, frame, displayed>>
    /\ UNCHANGED <<mainOnly, busyAtStop>>
    /\ UNCHANGED <<captured, shown, snap, prevRender>>

\* lines 121-126: fps_text from the global FPS, drawn on the frame
ShowFps ==
    /\ pc = "fps"
    /\ frame' = [frame EXCEPT !.fps = FormatFps(FPS)]
    /\ pc' = "lm130"
    /\ UNCHANGED <<inflight, camera, detector, displayed, error, submitted,
                   accepted>>
    /\ UNCHANGED <<mainOnly, busyAtStop>>
    /\ snap' = <<FPS, DETECTION_RESULT>>
    /\ UNCHANGED <<captured, shown, prevRender>>

\* line 130: if DETECTION_RESULT:
TestLandmarks ==
    /\ pc = "lm130"
    /\ pc' = IF DETECTION_RESULT # None THEN "lm132" ELSE "border"
    /\ UNCHANGED <<inflight, camera, detector, frame, displayed, error,
                   submitted, accepted>>
    /\ UNCHANGED <<mainOnly, busyAtStop>>
    /\ UNCHANGED <<captured, shown, snap, prevRender>>

\* lines 132-161: the landmarks of DETECTION_RESULT.face_landmarks
DrawLandmarks ==
    /\ pc = "lm132"
    /\ frame' = [frame EXCEPT !.landmarks = DETECTION_RESULT]
    /\ pc' = "border"
    /\ UNCHANGED <<inflight, camera, detector, displayed, error, submitted,
                   accepted>>
    /\ UNCHANGED <<mainOnly, busyAtStop>>
    /\ UNCHANGED <<captured, shown, snap, prevRender>>

\* lines 164-189: the label area and the legend, drawn on every frame
Border ==
    /\ pc = "border"
    /\ frame' = DrawPanel(frame)
    /\ pc' = "bars191"
    /\ UNCHANGED <<inflight, camera, detector, displayed, error, submitted,
                   accepted>>
    /\ UNCHANGED <<mainOnly, busyAtStop>>
    /\ UNCHANGED <<captured, shown, snap, prevRender>>

\* line 191: if DETECTION_RESULT:
TestBars ==
    /\ pc = "bars191"
    /\ pc' = IF DETECTION_RESULT # None THEN "bars200" ELSE "show"
    /\ UNCHANGED <<inflight, camera, detector, frame, displayed, error,
                   submitted, accepted>>
    /\ UNCHANGED <<mainOnly, busyAtStop>>
    /\ UNCHANGED <<captured, shown, snap, prevRender>>

\* lines 193-235: the bars of DETECTION_RESULT.face_blendshapes
DrawBars ==
    /\ pc = "bars200"
    /\ frame' = [frame EXCEPT !.bars = DETECTION_RESULT]
    /\ pc' = "show"
    /\ UNCHANGED <<inflight, camera, detector, displayed, error, submitted,
                   accepted>>
    /\ UNCHANGED <<mainOnly, busyAtStop>>
    /\ UNCHANGED <<captured, shown, snap, prevRender>>

\* line 237: cv2.imshow
Show ==
    /\ pc = "show"
    /\ displayed' = <<frame>>
    /\ pc' = "waitKey"
    /\ UNCHANGED <<inflight, camera, detector, frame, error, submitted,
                   accepted>>
    /\ UNCHANGED <<mainOnly, busyAtStop>>
    /\ shown' = shown + 1
    /\ prevRender' = <<snap, frame>>
    /\ UNCHANGED <<captured, snap>>

\* lines 240-241: if cv2.waitKey(1) == ord('q'): break
WaitKey ==
    /\ pc = "waitKey"
    /\ \E q \in BOOLEAN :
          /\ pc' = IF q THEN "close" ELSE "capture"
          /\ busyAtStop' = (q /\ inflight > 0)
    /\ UNCHANGED <<inflight, camera, detector, frame, displayed, error,
                   submitted, accepted>>
    /\ UNCHANGED mainOnly
    /\ UNCHANGED <<captured, shown, snap, prevRender>>

\* line 243: detector.close()
Close ==
    /\ pc = "close"
    /\ CloseReturns
    /\ IF graphError
         THEN /\ pc' = "crashed"
              /\ error' = "InferenceError"
              /\ detector' = detector
         ELSE /\ pc' = "stop"
              /\ error' = error
              /\ detector' = "closed"
    /\ UNCHANGED <<inflight, camera, frame, displayed, submitted, accepted>>
    /\ UNCHANGED <<mainOnly, busyAtStop>>
    /\ UNCHANGED <<captured, shown, snap, prevRender>>

\* variant: the teardown also resets the FPS bookkeeping
StopAndReset ==
    /\ pc = "stop"
    /\ camera' = "stopped"
    /\ pc' = "done"
    /\ COUNTER' = 0
    /\ FPS' = <<0, 1>>
    /\ UNCHANGED <<cb, START_TIME, DETECTION_RESULT, now, ticks, inflight,
                   graphError, detector, frame, displayed, error, submitted,
                   accepted, failed, hist, lastRecompute, busyAtStop, config,
                   captured, shown, snap, prevRender, barVars>>

\* line 244: picam2.stop()
Stop ==
    /\ pc = "stop"
    /\ camera' = "stopped"
    /\ pc' = "done"
    /\ UNCHANGED <<inflight, detector, frame, displayed, error, submitted,
                   accepted>>
    /\ UNCHANGED <<mainOnly, busyAtStop>>
    /\ UNCHANGED <<captured, shown, snap, prevRender>>

(* ---------------------------- save_result ------------------------------ *)
cbOnly == <<pc, ticks, graphError, camera, detector, frame, displayed, error,
            submitted, accepted, failed, busyAtStop, config, captured, shown,
            snap, prevRender, barVars>>

\* the inference of the accepted frame ends and MediaPipe calls save_result
Complete ==
    /\ inflight > 0
    /\ cb = "idle"
    /\ ~graphError
    /\ now' = now + 1
    /\ cb' = "l80"
    /\ UNCHANGED <<COUNTER, FPS, START_TIME, DETECTION_RESULT, inflight,
                   hist, lastRecompute>>
    /\ UNCHANGED cbOnly

\* line 80: if COUNTER % fps_avg_frame_count == 0:
SaveTest ==
    /\ cb = "l80"
    /\ cb' = IF WindowTest(COUNTER) THEN "l81" ELSE "l84"
    /\ UNCHANGED <<COUNTER, FPS, START_TIME, DETECTION_RESULT, now, inflight,
                   hist, lastRecompute>>
    /\ UNCHANGED cbOnly

\* line 81: FPS = fps_avg_frame_count / (time.time() - START_TIME)
SaveFps ==
    /\ cb = "l81"
    /\ FPS' = ComputeFps(now, START_TIME)
    /\ lastRecompute' = COUNTER + 1
    /\ cb' = "l82"
    /\ UNCHANGED <<COUNTER, START_TIME, DETECTION_RESULT, now, inflight, hist>>
    /\ UNCHANGED cbOnly

\* line 82: START_TIME = time.time()
SaveStart ==
    /\ cb = "l82"
    /\ START_TIME' = now
    /\ cb' = "l84"
    /\ UNCHANGED <<COUNTER, FPS, DETECTION_RESULT, now, inflight, hist,
                   lastRecompute>>
    /\ UNCHANGED cbOnly

\* line 84: DETECTION_RESULT = result
SaveResult ==
    /\ cb = "l84"
    /\ DETECTION_RESULT' = COUNTER + 1
    /\ hist' = Append(hist, FPS)
    /\ cb' = "l85"
    /\ UNCHANGED <<COUNTER, FPS, START_TIME, now, inflight, lastRecompute>>
    /\ UNCHANGED cbOnly

\* line 85: COUNTER += 1; the callback returns and the task is free again
SaveCount ==
    /\ cb = "l85"
    /\ COUNTER' = NextCounter(COUNTER)
    /\ cb' = "idle"
    /\ inflight' = inflight - 1
    /\ UNCHANGED <<FPS, START_TIME, DETECTION_RESULT, now, hist,
                   lastRecompute>>
    /\ UNCHANGED cbOnly

\* the inference of the accepted frame fails: save_result is not called.
\* The graph either keeps the error (the next call into the task raises it)
\* or goes on.
InferenceFail ==
    /\ inflight > 0
    /\ cb = "idle"
    /\ ~graphError
    /\ failed < MaxFailures
    /\ failed' = failed + 1
    /\ inflight' = inflight - 1
    /\ \E keeps \in BOOLEAN : graphError' = keeps
    /\ UNCHANGED <<pc, cb, COUNTER, FPS, START_TIME, DETECTION_RESULT, now,
                   ticks, camera, detector, frame, displayed, error,
                   submitted, accepted, hist, lastRecompute, busyAtStop,
                   config, captured, shown, snap, prevRender, barVars>>

Next ==
    \/ Tick
    \/ Start \/ StartFailCamera \/ StartFailDetector
    \/ Capture \/ CaptureFail \/ DetectAsync
    \/ ShowFps \/ TestLandmarks \/ DrawLandmarks \/ Border
    \/ TestBars \/ DrawBars \/ Show \/ WaitKey
    \/ Close \/ Stop
    \/ Complete \/ SaveTest \/ SaveFps \/ SaveStart \/ SaveResult \/ SaveCount
    \/ InferenceFail

Spec == Init /\ [][Next]_vars

\* run() called with any of the command lines of ConfigCases
InitConfig ==
    \E c \in ConfigCases :
        /\ config = c
        /\ pc = "start"
        /\ cb = "idle"
        /\ COUNTER = 0
        /\ FPS = <<0, 1>>
        /\ START_TIME = 0
        /\ DETECTION_RESULT = None
        /\ now = 0
        /\ ticks = 0
        /\ inflight = 0
        /\ graphError = FALSE
        /\ camera = "closed"
        /\ detector = "none"
        /\ frame = RawFrame
        /\ displayed = << >>
        /\ error = "none"
        /\ submitted = 0
        /\ accepted = 0
        /\ failed = 0
        /\ hist = << <<0, 1>> >>
        /\ lastRecompute = 0
        /\ busyAtStop = FALSE
        /\ captured = 0
        /\ shown = 0
        /\ snap = <<<<0, 1>>, None>>
        /\ prevRender = << >>
        /\ face_blendshapes = << >>
        /\ barPc = "idle"
        /\ idx = 0
        /\ legend_y = 0
        /\ rows = << >>

SpecConfig == InitConfig /\ [][Next]_vars

TypeOK ==
    /\ COUNTER \in Nat
    /\ inflight \in Nat
    /\ DETECTION_RESULT \in Nat
    /\ Len(hist) = DETECTION_RESULT + 1

(* ------------------- the blendshape bars, lines 191-235 ---------------- *)
\* Scores are in thousandths, rounded scores in hundredths, lengths in pixels.
label_padding_width == 1500
bar_height == 16
gap_between_bars == 10
legend_y_start == 300

\* bar_max_width = label_padding_width - 40
bar_max_width == label_padding_width - 40

\* round(category.score, 2): to the nearest hundredth, a tie to the even one
\* (the ties among the scores drawn below, .125, are exact as floats)
RoundScore(s) ==
    LET q == s \div 10
        r == s % 10
    IN  IF r > 5 THEN q + 1
        ELSE IF r < 5 THEN q
        ELSE IF q % 2 = 0 THEN q ELSE q + 1

\* variant: the width is rounded to the nearest pixel
BarWidthRounded(h) == (bar_max_width * h + 50) \div 100

\* int(bar_max_width * score)
BarWidth(h) == (bar_max_width * h) \div 100

\* the scores of a blendshape category the render is tried on
Scores == {0, 4, 125, 126, 750, 1000}

RECURSIVE SeqsUpTo(_, _)
SeqsUpTo(S, n) ==
    IF n = 0 THEN {<< >>}
    ELSE LET shorter == SeqsUpTo(S, n - 1)
         IN  shorter \cup {Append(q, x) : q \in shorter, x \in S}

\* results: no face, one face, two faces
BlendshapeCases ==
    LET faces == SeqsUpTo(Scores, MaxCategories)
    IN  {<< >>} \cup {<<f>> : f \in faces} \cup {<<f, <<1000>>>> : f \in faces}

\* the loop is at line 191 of the iteration that follows the first publish,
\* whose result carries the blendshapes b
BarsEntry(b) ==
    /\ face_blendshapes = b
    /\ barPc = "l191"
    /\ idx = 0
    /\ legend_y = 0
    /\ rows = << >>
    /\ pc = "bars191"
    /\ cb = "idle"
    /\ COUNTER = 1
    /\ FPS = <<fps_avg_frame_count, 1>>
    /\ START_TIME = 1
    /\ DETECTION_RESULT = 1
    /\ now = 1
    /\ ticks = 0
    /\ inflight = 0
    /\ graphError = FALSE
    /\ camera = "started"
    /\ detector = "open"
    /\ frame = [fps |-> 100, landmarks |-> 1, panel |-> TRUE, legend |-> TRUE,
                bars |-> None]
    /\ displayed = << >>
    /\ error = "none"
    /\ submitted = 1
    /\ accepted = 1
    /\ failed = 0
    /\ hist = << <<0, 1>>, <<fps_avg_frame_count, 1>> >>
    /\ lastRecompute = 1
    /\ busyAtStop = FALSE
    /\ config = DefaultConfig
    /\ captured = 1
    /\ shown = 0
    /\ snap = << <<fps_avg_frame_count, 1>>, 1 >>
    /\ prevRender = << >>

InitBars == \E b \in BlendshapeCases : BarsEntry(b)

pipelineVars == <<pc, cb, COUNTER, FPS, START_TIME, DETECTION_RESULT, now,
                  ticks, inflight, graphError, camera, detector, frame,
                  displayed, error, submitted, accepted, failed, hist,
                  lastRecompute, busyAtStop, config, captured, shown, snap,
                  prevRender>>

\* lines 191-202: the guards and the start values
BarsBegin ==
    /\ barPc = "l191"
    /\ legend_y' = IF DETECTION_RESULT # None THEN legend_y_start ELSE legend_y
    /\ barPc' = IF DETECTION_RESULT # None /\ Len(face_blendshapes) > 0
                  THEN "l203" ELSE "done"
    /\ UNCHANGED <<face_blendshapes, idx, rows>>
    /\ UNCHANGED pipelineVars

\* lines 203-235: one category of face_blendshapes[0], or the end of the loop
BarRow ==
    /\ barPc = "l203"
    /\ IF idx < Len(face_blendshapes[1])
         THEN LET score == RoundScore(face_blendshapes[1][idx + 1])
              IN  /\ rows' = Append(rows, [score |-> score, y |-> legend_y,
                                            width |-> BarWidth(score)])
                  /\ legend_y' = legend_y + (bar_height + gap_between_bars)
                  /\ idx' = idx + 1
                  /\ barPc' = barPc
         ELSE /\ barPc' = "done"
              /\ UNCHANGED <<rows, legend_y, idx>>
    /\ UNCHANGED face_blendshapes
    /\ UNCHANGED pipelineVars

NextBars == BarsBegin \/ BarRow

SpecBars == InitBars /\ [][NextBars]_vars

(* ------------------------------ properties ----------------------------- *)
K == fps_avg_frame_count

C2_SnapshotAtomic ==
    pc = "show" =>
        /\ frame.fps = FormatFps(hist[frame.landmarks + 1])
        /\ frame.fps = FormatFps(hist[frame.bars + 1])

\* C3 (as claimed): FPS is recomputed by the publish that completes a window
\* of K publishes (the 10th, the 20th, ...), to K / (now - START_TIME), and
\* by no other publish.
C3_FpsWindow ==
    [][FPS' # FPS =>
          /\ (COUNTER + 1) % K = 0
          /\ FPS' = <<K, now - START_TIME>>]_vars

C6_CounterMonotonic ==
    [][\/ COUNTER' = COUNTER
       \/ (COUNTER' = COUNTER + 1 /\ cb = "l85" /\ cb' = "idle")]_vars

\* more than a window of publishes has been counted
C6_Witness == COUNTER > K /\ cb = "idle"

\* C7: FPS and START_TIME change only in a publish that found COUNTER at a
\* multiple of K; two consecutive recomputations are exactly K publishes
\* apart.
C7_FpsOnlyAtWindow ==
    [][/\ (FPS' # FPS => cb = "l81" /\ COUNTER % K = 0)
       /\ (START_TIME' # START_TIME => cb = "l82" /\ COUNTER % K = 0)
       /\ (lastRecompute' # lastRecompute =>
              /\ cb = "l81"
              /\ lastRecompute' = COUNTER + 1
              /\ (lastRecompute = 0 \/ lastRecompute' = lastRecompute + K))
       /\ (cb = "l85" /\ cb' = "idle" /\ lastRecompute # COUNTER + 1 =>
              FPS' = hist[COUNTER + 1] /\ hist[COUNTER + 2] = hist[COUNTER + 1])]_vars

\* the third recomputation has happened, K publishes after the second, and
\* the publishes in between have left FPS alone
C7_Witness ==
    /\ lastRecompute = 2 * K + 1
    /\ cb = "idle"
    /\ COUNTER = 2 * K + 1
    /\ FPS # hist[2 * K + 1]
    /\ hist[2 * K + 1] = hist[K + 2]

\* C8 (as claimed): the lifecycle moves only Starting -> Running -> Stopping
\* -> Stopped.
C8_Lifecycle ==
    [][\/ State' = State
       \/ <<State, State'>> \in {<<"Starting", "Running">>,
                                 <<"Running", "Stopping">>,
                                 <<"Stopping", "Stopped">>}]_vars

\* C9 (as claimed): a failing capture leaves the pipeline in Running, at the
\* next capture, with no submit, no display and the shared globals unchanged.
C9_CaptureRecoverable ==
    [][(error = "none" /\ error' = "CaptureError") =>
          /\ pc' = "capture"
          /\ submitted' = submitted
          /\ displayed' = displayed
          /\ slot' = slot]_vars

\* C10 (as claimed): a failing inference frees the stage and keeps the cached
\* result; every later detect_async call made while the stage is free is
\* accepted; a cached result never becomes None again.
C10_InferenceRecoverable ==
    [][/\ (failed' > failed =>
              inflight' = 0 /\ DETECTION_RESULT' = DETECTION_RESULT)
       /\ (failed > 0 /\ pc = "submit" /\ pc' # "submit" /\ inflight = 0 =>
              accepted' = accepted + 1 /\ inflight' = 1)
       /\ (DETECTION_RESULT # None => DETECTION_RESULT' # None)]_vars


\* C11 (as claimed): with a parameter out of range the run ends in a
\* configuration error and the camera is never opened or started.
C11_ConfigValidated ==
    ~InRange(config) =>
        /\ camera = "closed"
        /\ pc \in {"start", "crashed"}
        /\ (pc = "crashed" => error = "ConfigError")

\* C12: no step of run() changes COUNTER, FPS, START_TIME or
\* DETECTION_RESULT: they change only in steps of save_result.
C12_CallbackOnlyWriter ==
    [][/\ (pc' # pc => slot' = slot)
       /\ (slot' # slot => cb # "idle" /\ pc' = pc)]_vars

\* run() has gone through whole iterations and the teardown, next to
\* publishes
C12_Witness ==
    /\ pc = "done"
    /\ shown >= 2
    /\ COUNTER >= 1

C14_RenderPure ==
    (pc = "show" /\ Len(prevRender) = 2 /\ prevRender[1] = snap) =>
        frame = prevRender[2]

C16_IterationOrder ==
    /\ shown <= submitted
    /\ submitted <= captured
    /\ captured <= shown + 1
    /\ (State \notin {"Starting", "Running"} =>
            captured = submitted /\ submitted = shown)

\* C17 (as claimed): when run() has ended, by the stop key or by an error
\* raised in the loop, the landmarker is closed and the camera stopped, the
\* landmarker first.
C17_ResourcesReleased ==
    /\ ((pc = "done" \/ error \in {"CaptureError", "InferenceError"}) =>
            camera = "stopped" /\ detector = "closed")
    /\ (camera = "stopped" => detector = "closed")

\* C18 (as claimed): the landmarks and the bars of one frame are drawn from
\* the same value of DETECTION_RESULT.
C18_SameResult ==
    pc = "show" => frame.landmarks = frame.bars

====
